---- MODULE Spec2Model ----
(***************************************************************************)
(* Model of bcoin's AsyncObject (lib/utils/async.js): the recallable open  *)
(* / close lifecycle of every stateful component, of Environment#set       *)
(* (lib/env.js) and of the signInput worker job (lib/workers/jobs.js).     *)
(*                                                                         *)
(* Each call of open() or close() is a coroutine (a generator run by co).  *)
(* The body runs synchronously up to its first yield, and every            *)
(* yield of a promise resumes in a later turn of the event loop.  One      *)
(* action of the model is one run-to-completion segment of a coroutine:    *)
(* the code between two suspension points.  Other calls can be issued      *)
(* between any two segments.                                               *)
(***************************************************************************)
EXTENDS Integers, Sequences, FiniteSets, TLC

\* Number of open()/close() calls issued in one behaviour.
MaxCalls == 3
\* Number of observers registered with on() in one behaviour.
MaxObservers == 1
\* Largest number given as a worker-pool size, timeout or cache size.
MaxNum == 1
\* Largest input index given to the signInput job.
MaxIndex == 2

Calls == 1..MaxCalls
Observers == 1..MaxObservers
Events == {"preopen", "open", "preclose", "close", "error"}

\* Values a promise settles with: 0 is `undefined`, Usage is the
\* AssertionError of assert(), Abstract is the Error('Abstract method.') of
\* a hook that is not overridden, Thrown is the exception of an observer
\* that throws, c > 0 is the error the hook invoked by call c rejected with.
Usage == -1
Abstract == -2
Thrown == -3
Pending == [st |-> "pending", val |-> 0]
Resolved(v) == [st |-> "resolved", val |-> v]
Rejected(v) == [st |-> "rejected", val |-> v]

VARIABLES
  loading,    \* this.loading
  closing,    \* this.closing
  loaded,     \* this.loaded
  locker,     \* this.locker is set (TRUE) or null (FALSE)
  hooks,      \* the hooks the component overrides, among "open" and "close"
  busy,       \* locker.busy
  jobs,       \* locker.jobs: calls queued in lock(), in call order
  listeners,  \* EventEmitter: event -> sequence of listeners
  kind,       \* call -> "none" (not issued), "open" or "close"
  pc,         \* call -> suspension point of its coroutine
  err,        \* call -> local variable err (0: undefined)
  unlock,     \* call -> local variable unlock is set
  result,     \* call -> state of the promise returned to the caller
  invoked,    \* call -> the call invoked its hook (_open / _close)
  released,   \* call -> the call called unlock()
  got,        \* call -> value its _onOpen / _onClose promise resolved with
  snap,       \* call -> what the component looked like when it was called
  emitted,    \* event -> number of emit(event) so far
  seen,       \* event -> lifecycle state the flags encoded at its last emit
  heard,      \* observer -> the values it has been called with, in order
  nObs,       \* observers registered so far
  env,        \* Environment: useWorkers, workerPool.size, workerPool.timeout,
              \* sigcache size, network
  job         \* the last jobs.signInput call: what MTX#signInput received

envVars == <<env, job>>

vars == <<loading, closing, loaded, locker, hooks, busy, jobs, listeners,
          kind, pc, err, unlock, result, invoked, released, got, snap,
          emitted, seen, heard, nObs, env, job>>

\* The four lifecycle states as the flags encode them.
Idle == ~loading /\ ~loaded /\ ~closing
Open == ~loading /\ loaded /\ ~closing

\* The lifecycle state that three flag values encode.
StateOf(l, c, d) ==
  IF ~l /\ ~c /\ ~d THEN "Idle"
  ELSE IF l /\ ~c /\ ~d THEN "Opening"
  ELSE IF ~l /\ ~c /\ d THEN "Open"
  ELSE IF ~l /\ c /\ ~d THEN "Closing"
  ELSE "none"

\* Calls whose promise has not settled.
InFlight == {c \in Calls : kind[c] # "none" /\ result[c].st = "pending"}

\* The call whose hook is running or has run and not yet been finished.
Runner(k) == {c \in Calls : kind[c] = k /\ pc[c] \in {"hook", "tick"}}

NoSnap == [loading |-> FALSE, closing |-> FALSE, loaded |-> FALSE,
           inflight |-> {}, runner |-> {}]
Snap(k) == [loading |-> loading, closing |-> closing, loaded |-> loaded,
            inflight |-> InFlight, runner |-> Runner(k)]

\* The AsyncObject after construction; a subclass may set a locker and
\* override the hooks.
LifeInit ==
  /\ loading = FALSE
  /\ closing = FALSE
  /\ loaded = FALSE
  /\ busy = FALSE
  /\ jobs = <<>>
  /\ listeners = [e \in Events |-> <<>>]
  /\ kind = [c \in Calls |-> "none"]
  /\ pc = [c \in Calls |-> "new"]
  /\ err = [c \in Calls |-> 0]
  /\ unlock = [c \in Calls |-> FALSE]
  /\ result = [c \in Calls |-> Pending]
  /\ invoked = [c \in Calls |-> FALSE]
  /\ released = [c \in Calls |-> FALSE]
  /\ got = [c \in Calls |-> 0]
  /\ snap = [c \in Calls |-> NoSnap]
  /\ emitted = [e \in Events |-> 0]
  /\ seen = [e \in Events |-> "none"]
  /\ heard = [n \in Observers |-> <<>>]
  /\ nObs = 0

----------------------------------------------------------------------------
(* EventEmitter *)

\* A listener is a once() waiter of a call (_onOpen / _onClose) or an
\* observer registered with on(); an observer may throw when it is called.
Waiter(c) == [once |-> TRUE, id |-> c, throws |-> FALSE]
Observer(n, t) == [once |-> FALSE, id |-> n, throws |-> t]

RECURSIVE Keep(_)
\* The listeners that stay registered after they were called: once()
\* listeners remove themselves when they fire.
Keep(s) ==
  IF s = <<>> THEN <<>>
  ELSE IF Head(s).once THEN Keep(Tail(s))
  ELSE <<Head(s)>> \o Keep(Tail(s))

\* The calls whose once() listener is in the sequence.
WaitersOf(s) == {s[i].id : i \in {j \in 1..Len(s) : s[j].once}}

\* The observers in the sequence.
ObserversOf(s) == {s[i].id : i \in {j \in 1..Len(s) : ~s[j].once}}

\* Index of the first listener that throws, 0 when none does.
FirstThrow(s) ==
  IF \E i \in 1..Len(s) : s[i].throws
  THEN CHOOSE i \in 1..Len(s) :
         s[i].throws /\ \A j \in 1..(i - 1) : ~s[j].throws
  ELSE 0

Throws(s) == FirstThrow(s) # 0

\* Listeners are called in registration order; an exception of one of
\* them propagates to the caller of emit, so the ones after it are not
\* called.
Called(s) == IF Throws(s) THEN SubSeq(s, 1, FirstThrow(s)) ELSE s
Uncalled(s) == IF Throws(s) THEN SubSeq(s, FirstThrow(s) + 1, Len(s)) ELSE <<>>

\* The listeners of an event after emit(event).
AfterEmit(s) == Keep(Called(s)) \o Uncalled(s)

\* heard after the observers in ns were called with v.
Hear(ns, v) ==
  [n \in Observers |-> IF n \in ns THEN Append(heard[n], v) ELSE heard[n]]

\* emitter.on(event, fn)
On(e, t) ==
  /\ nObs < MaxObservers
  /\ nObs' = nObs + 1
  /\ listeners' = [listeners EXCEPT ![e] = Append(@, Observer(nObs + 1, t))]
  /\ UNCHANGED <<loading, closing, loaded, locker, hooks, busy, jobs, kind,
                 pc, err, unlock, result, invoked, released, got, snap,
                 emitted, seen, heard>>
  /\ UNCHANGED envVars

----------------------------------------------------------------------------
(* Locker *)

\* locker.lock() by call c: taken at once when free, queued otherwise.
\* Either way the caller resumes in a later turn.
LockPc(c) == IF busy THEN "lockq" ELSE "locked"
LockJobs(c) == IF busy THEN Append(jobs, c) ELSE jobs

\* unlock(): hands the lock to the first queued call, if any.
UnlockBusy == jobs # <<>>
UnlockJobs == IF jobs = <<>> THEN jobs ELSE Tail(jobs)
UnlockGrant == IF jobs = <<>> THEN {} ELSE {Head(jobs)}

----------------------------------------------------------------------------
(* AsyncObject.prototype.open *)

\* The next call to be issued: calls are numbered in the order they are made.
IsNext(c) == kind[c] = "none" /\ \A d \in Calls : d < c => kind[d] # "none"

\* pc after a segment of call c that moves c to p, resolves the promises of
\* the waiters in ws and hands the lock to the calls in gs.
NextPc(c, p, ws, gs) ==
  [d \in Calls |-> IF d = c THEN p
                   ELSE IF d \in ws THEN "resume"
                   ELSE IF d \in gs THEN "locked"
                   ELSE pc[d]]

\* open() without its test of this.loaded.
OpenReturnsEarlyDropped == FALSE

\* `if (this.loaded) return yield co.wait();`
OpenReturnsEarly == loaded

\* `if (this.loading) return yield this._onOpen();`
OpenJoins == loading

\* The state the listeners of 'preopen' / 'preclose' would see with the
\* flags of transition k set before the emit.
SeenByPreAfterFlags(k) ==
  IF k = "open" THEN StateOf(TRUE, closing, loaded)
  ELSE StateOf(loading, TRUE, FALSE)

\* The state the listeners of 'preopen' / 'preclose' see at the start of
\* transition k: the emit comes before the flags are set (lines 55-57,
\* 102-105).
SeenByPre(k) == StateOf(loading, closing, loaded)

\* The start of a transition of call c, shared by open() and close():
\* emit(pre), then the flags are set (by the caller of Start), then the
\* hook k is called inside try/catch and co.wait() is yielded.
\*   A listener of pre that throws ends the call before the flags are set.
\*   A hook that is not overridden throws 'Abstract method.' at once: the
\*   catch stores it in err like the rejection of an overridden hook.
Start(c, k, pre) ==
  LET ls == listeners[pre]
  IN
  /\ emitted' = [emitted EXCEPT ![pre] = @ + 1]
  /\ seen' = [seen EXCEPT ![pre] = SeenByPre(k)]
  /\ heard' = Hear(ObserversOf(Called(ls)), 0)
  /\ listeners' = [listeners EXCEPT ![pre] = AfterEmit(@)]
  /\ IF Throws(ls) THEN
       /\ result' = [result EXCEPT ![c] = Rejected(Thrown)]
       /\ pc' = [pc EXCEPT ![c] = "done"]
       /\ UNCHANGED <<invoked, err>>
     ELSE
       /\ invoked' = [invoked EXCEPT ![c] = TRUE]
       /\ IF k \in hooks
          THEN pc' = [pc EXCEPT ![c] = "hook"] /\ UNCHANGED err
          ELSE /\ pc' = [pc EXCEPT ![c] = "tick"]
               /\ err' = [err EXCEPT ![c] = Abstract]
       /\ UNCHANGED result
  /\ UNCHANGED <<got, released>>

\* Lines 55-60: emit('preopen'); this.loading = true; yield this._open().
OpenStart(c) ==
  /\ Start(c, "open", "preopen")
  /\ loading' = (IF Throws(listeners["preopen"]) THEN loading ELSE TRUE)
  /\ UNCHANGED <<closing, loaded>>

\* open() up to its first suspension point.
OpenCall(c) ==
  /\ IsNext(c)
  /\ kind' = [kind EXCEPT ![c] = "open"]
  /\ snap' = [snap EXCEPT ![c] = Snap("open")]
  /\ UNCHANGED <<locker, hooks, nObs>>
  /\ UNCHANGED envVars
  /\ IF closing THEN
       \* assert(!this.closing) throws: the promise is rejected at once.
       /\ result' = [result EXCEPT ![c] = Rejected(Usage)]
       /\ pc' = [pc EXCEPT ![c] = "done"]
       /\ UNCHANGED <<loading, closing, loaded, busy, jobs, listeners, err,
                      unlock, invoked, released, got, emitted, seen, heard>>
     ELSE IF OpenReturnsEarly THEN
       /\ pc' = [pc EXCEPT ![c] = "wait"]
       /\ UNCHANGED <<loading, closing, loaded, busy, jobs, listeners, err,
                      unlock, result, invoked, released, got, emitted, seen,
                      heard>>
     ELSE IF OpenJoins THEN
       /\ listeners' = [listeners EXCEPT !["open"] = Append(@, Waiter(c))]
       /\ pc' = [pc EXCEPT ![c] = "onOpen"]
       /\ UNCHANGED <<loading, closing, loaded, busy, jobs, err, unlock,
                      result, invoked, released, got, emitted, seen, heard>>
     ELSE IF locker THEN
       /\ pc' = [pc EXCEPT ![c] = LockPc(c)]
       /\ jobs' = LockJobs(c)
       /\ busy' = TRUE
       /\ UNCHANGED <<loading, closing, loaded, listeners, err, unlock,
                      result, invoked, released, got, emitted, seen, heard>>
     ELSE
       /\ OpenStart(c)
       /\ UNCHANGED <<busy, jobs, unlock>>

\* open() resumed with the lock: unlock = <the release handle>, then the
\* transition starts.
OpenLocked(c) ==
  /\ kind[c] = "open"
  /\ pc[c] = "locked"
  /\ unlock' = [unlock EXCEPT ![c] = TRUE]
  /\ OpenStart(c)
  /\ UNCHANGED <<locker, hooks, busy, jobs, kind, snap, nObs>>
  /\ UNCHANGED envVars

\* The promise of the hook settles: try { yield this._open() } catch (e)
\* { err = e }, followed by yield co.wait().
HookSettles(c, ok) ==
  /\ pc[c] = "hook"
  /\ err' = [err EXCEPT ![c] = IF ok THEN 0 ELSE c]
  /\ pc' = [pc EXCEPT ![c] = "tick"]
  /\ UNCHANGED <<loading, closing, loaded, locker, hooks, busy, jobs,
                 listeners, kind, unlock, result, invoked, released, got,
                 snap, emitted, seen, heard, nObs>>
  /\ UNCHANGED envVars

\* The value a waiter's promise resolves with when its listener is called
\* with v: once(event, resolve) makes every call of the listener a resolve.
Delivered(v) == v

\* The exception that escapes the notification at the end of a transition
\* of call c on event e, 0 when none does.
\*   success: emit(e) rethrows what a listener of e throws.
\*   failure: _error(e, err) calls the listeners of e directly, then
\*   emit('error', err), which throws err itself when 'error' has no
\*   listener.
Escapes(c, e) ==
  IF Throws(listeners[e]) THEN Thrown
  ELSE IF err[c] = 0 THEN 0
  ELSE IF listeners["error"] = <<>> THEN err[c]
  ELSE IF Throws(listeners["error"]) THEN Thrown
  ELSE 0

\* _error gets as far as emit('error', err).
EmitsError(c, e) == err[c] # 0 /\ ~Throws(listeners[e])

\* The call releases the lock at the end of its transition: `if (unlock)
\* unlock();` comes after the notification, outside any try/finally.
Releases(c, e) == unlock[c] /\ Escapes(c, e) = 0

\* The part shared by the last segments of open() and close(): the
\* notification (emit(event) on success, _error(event, err) on failure),
\* the release of the lock and the settling of the caller.
\*   _error: takes the listeners of the event, removes them all, calls each
\*   with err, then emit('error', err).
Finish(c, e) ==
  LET failed == err[c] # 0
      ls == listeners[e]
      els == IF EmitsError(c, e) THEN listeners["error"] ELSE <<>>
      ws == WaitersOf(Called(ls))
      gs == IF Releases(c, e) THEN UnlockGrant ELSE {}
      now == StateOf(loading', closing', loaded')
  IN
  /\ listeners' = [listeners EXCEPT
                     ![e] = IF failed THEN <<>> ELSE AfterEmit(@)]
  /\ got' = [d \in Calls |-> IF d \in ws THEN Delivered(err[c]) ELSE got[d]]
  /\ heard' = Hear(ObserversOf(Called(ls)) \cup ObserversOf(Called(els)),
                   err[c])
  /\ emitted' = IF ~failed THEN [emitted EXCEPT ![e] = @ + 1]
                ELSE IF EmitsError(c, e)
                     THEN [emitted EXCEPT !["error"] = @ + 1]
                     ELSE emitted
  /\ seen' = IF ~failed THEN [seen EXCEPT ![e] = now]
             ELSE IF EmitsError(c, e) THEN [seen EXCEPT !["error"] = now]
             ELSE seen
  /\ released' = [released EXCEPT ![c] = Releases(c, e)]
  /\ busy' = IF Releases(c, e) THEN UnlockBusy ELSE busy
  /\ jobs' = IF Releases(c, e) THEN UnlockJobs ELSE jobs
  /\ result' = [result EXCEPT
                  ![c] = IF Escapes(c, e) # 0 THEN Rejected(Escapes(c, e))
                         ELSE IF failed THEN Rejected(err[c])
                         ELSE Resolved(0)]
  /\ pc' = NextPc(c, "done", ws, gs)
  /\ UNCHANGED <<locker, hooks, kind, err, unlock, invoked, snap, nObs>>
  /\ UNCHANGED envVars

\* open() after yield co.wait(): lines 67-80.
OpenFinish(c) ==
  /\ kind[c] = "open"
  /\ pc[c] = "tick"
  /\ loading' = FALSE
  /\ loaded' = IF err[c] # 0 THEN loaded ELSE TRUE
  /\ UNCHANGED closing
  /\ Finish(c, "open")

----------------------------------------------------------------------------
(* AsyncObject.prototype.close *)

\* close() with the test of this.loaded inverted.
CloseReturnsEarlyInverted == loaded

\* `if (!this.loaded) return yield co.wait();`
CloseReturnsEarly == ~loaded

\* `if (this.closing) return yield this._onClose();`
CloseJoins == closing

\* Lines 102-108: emit('preclose'); this.closing = true;
\* this.loaded = false; yield this._close().
CloseStart(c) ==
  /\ Start(c, "close", "preclose")
  /\ closing' = (IF Throws(listeners["preclose"]) THEN closing ELSE TRUE)
  /\ loaded' = (IF Throws(listeners["preclose"]) THEN loaded ELSE FALSE)
  /\ UNCHANGED loading

\* close() up to its first suspension point.
CloseCall(c) ==
  /\ IsNext(c)
  /\ kind' = [kind EXCEPT ![c] = "close"]
  /\ snap' = [snap EXCEPT ![c] = Snap("close")]
  /\ UNCHANGED <<locker, hooks, nObs>>
  /\ UNCHANGED envVars
  /\ IF loading THEN
       \* assert(!this.loading) throws: the promise is rejected at once.
       /\ result' = [result EXCEPT ![c] = Rejected(Usage)]
       /\ pc' = [pc EXCEPT ![c] = "done"]
       /\ UNCHANGED <<loading, closing, loaded, busy, jobs, listeners, err,
                      unlock, invoked, released, got, emitted, seen, heard>>
     ELSE IF CloseReturnsEarly THEN
       /\ pc' = [pc EXCEPT ![c] = "wait"]
       /\ UNCHANGED <<loading, closing, loaded, busy, jobs, listeners, err,
                      unlock, result, invoked, released, got, emitted, seen,
                      heard>>
     ELSE IF CloseJoins THEN
       /\ listeners' = [listeners EXCEPT !["close"] = Append(@, Waiter(c))]
       /\ pc' = [pc EXCEPT ![c] = "onClose"]
       /\ UNCHANGED <<loading, closing, loaded, busy, jobs, err, unlock,
                      result, invoked, released, got, emitted, seen, heard>>
     ELSE IF locker THEN
       /\ pc' = [pc EXCEPT ![c] = LockPc(c)]
       /\ jobs' = LockJobs(c)
       /\ busy' = TRUE
       /\ UNCHANGED <<loading, closing, loaded, listeners, err, unlock,
                      result, invoked, released, got, emitted, seen, heard>>
     ELSE
       /\ CloseStart(c)
       /\ UNCHANGED <<busy, jobs, unlock>>

\* close() resumed with the lock.
CloseLocked(c) ==
  /\ kind[c] = "close"
  /\ pc[c] = "locked"
  /\ unlock' = [unlock EXCEPT ![c] = TRUE]
  /\ CloseStart(c)
  /\ UNCHANGED <<locker, hooks, busy, jobs, kind, snap, nObs>>
  /\ UNCHANGED envVars

\* close() after yield co.wait(): lines 115-127.
CloseFinish(c) ==
  /\ kind[c] = "close"
  /\ pc[c] = "tick"
  /\ closing' = FALSE
  /\ UNCHANGED <<loading, loaded>>
  /\ Finish(c, "close")

----------------------------------------------------------------------------
(* Resumptions that only settle the caller *)

\* `return yield co.wait()`: the next turn of the event loop.
WaitReturns(c) ==
  /\ pc[c] = "wait"
  /\ result' = [result EXCEPT ![c] = Resolved(0)]
  /\ pc' = [pc EXCEPT ![c] = "done"]
  /\ UNCHANGED <<loading, closing, loaded, locker, hooks, busy, jobs,
                 listeners, kind, err, unlock, invoked, released, got, snap,
                 emitted, seen, heard, nObs>>
  /\ UNCHANGED envVars

\* `return yield this._onOpen()` / `this._onClose()` once the listener has
\* been called: the call returns the value the listener was called with.
WaiterReturns(c) ==
  /\ pc[c] = "resume"
  /\ result' = [result EXCEPT ![c] = Resolved(got[c])]
  /\ pc' = [pc EXCEPT ![c] = "done"]
  /\ UNCHANGED <<loading, closing, loaded, locker, hooks, busy, jobs,
                 listeners, kind, err, unlock, invoked, released, got, snap,
                 emitted, seen, heard, nObs>>
  /\ UNCHANGED envVars

----------------------------------------------------------------------------
(* Environment.prototype.set *)

\* JavaScript values of an option, by typeof: NaN is a number that is not
\* finite (what `+process.env.X` yields when X is unset).
Undefined == [t |-> "undefined", v |-> 0]
NaN == [t |-> "nan", v |-> 0]
Str == [t |-> "string", v |-> 0]
Num(n) == [t |-> "number", v |-> n]
Bool(b) == [t |-> "boolean", v |-> IF b THEN 1 ELSE 0]

Nums == 0..MaxNum
Networks == {"main"}

\* Values the numeric options and options.useWorkers are drawn from.
NumberArgs == {Undefined, NaN, Str} \cup {Num(n) : n \in Nums}
FlagArgs == {Undefined, Num(MaxNum), Bool(TRUE), Bool(FALSE)}

\* The argument of set(): an options object, a network name, or nothing.
\* network is "" when absent.
OptionArgs ==
  [form : {"object"}, network : Networks \cup {""}, useWorkers : FlagArgs,
   maxWorkers : NumberArgs, workerTimeout : NumberArgs,
   sigcacheSize : NumberArgs]
  \cup [form : {"string"}, network : Networks, useWorkers : {Undefined},
        maxWorkers : {Undefined}, workerTimeout : {Undefined},
        sigcacheSize : {Undefined}]
  \cup [form : {"null"}, network : {""}, useWorkers : {Undefined},
        maxWorkers : {Undefined}, workerTimeout : {Undefined},
        sigcacheSize : {Undefined}]

\* utils.isNumber(value): typeof value === 'number' && isFinite(value).
IsNumber(x) == x.t = "number"

\* `typeof options.useWorkers === 'boolean'`
IsBoolean(x) == x.t = "boolean"

\* Lines 246-247 and 255-258: useWorkers after set(o).  In a browser
\* workers are used only where Worker or postMessage exists.
SetUseWorkers(en, o) ==
  LET asked == IF IsBoolean(o.useWorkers) THEN o.useWorkers.v = 1
               ELSE en.useWorkers
  IN IF en.isBrowser /\ asked THEN en.hasWorker ELSE asked

\* A numeric setting taken from any option that is present.
SetNumberUnchecked(old, x) == IF x.t = "undefined" THEN old ELSE x.v

\* A numeric setting after set(): lines 249-253 and 260-261.
SetNumber(old, x) == IF IsNumber(x) THEN x.v ELSE old

\* The options whose value passes the type test of its setting.
Given(o) ==
  {f \in {"maxWorkers", "workerTimeout", "sigcacheSize"} :
     o[f].t = "number"}
  \cup (IF o.useWorkers.t = "boolean" THEN {"useWorkers"} ELSE {})

\* The Environment after set(o).
SetEnv(en, o) ==
  [useWorkers |-> SetUseWorkers(en, o),
   size |-> SetNumber(en.size, o.maxWorkers),
   timeout |-> SetNumber(en.timeout, o.workerTimeout),
   sigcacheSize |-> SetNumber(en.sigcacheSize, o.sigcacheSize),
   network |-> IF o.network # "" THEN o.network ELSE en.network,
   isBrowser |-> en.isBrowser,
   hasWorker |-> en.hasWorker,
   applied |-> TRUE,
   given |-> Given(o)]

\* The Environment as lines 212-219 leave it, before the constructor's own
\* set(): the pool has its defaults s and t, the cache size 0.
EnvNew(b, w, s, t) ==
  [useWorkers |-> FALSE, size |-> s, timeout |-> t, sigcacheSize |-> 0,
   network |-> "", isBrowser |-> b, hasWorker |-> w, applied |-> FALSE,
   given |-> {}]

\* Environment.prototype.set(options)
Set(o) ==
  /\ env' = SetEnv(env, o)
  /\ UNCHANGED <<loading, closing, loaded, locker, hooks, busy, jobs,
                 listeners, kind, pc, err, unlock, result, invoked, released,
                 got, snap, emitted, seen, heard, nObs, job>>

----------------------------------------------------------------------------
(* jobs.signInput *)

Txs == {"tx1", "tx2"}
Indexes == 0..MaxIndex
Keys == {"key1", "key2", "key3"}
\* SIGHASH_ALL, SIGHASH_NONE, SIGHASH_SINGLE
Types == {"all", "none", "single"}

\* A job argument: the values are tagged so that one can stand where
\* another is expected, as JavaScript allows.
TxArg(x) == [role |-> "tx", tx |-> x, n |-> 0, s |-> ""]
IndexArg(i) == [role |-> "index", tx |-> "", n |-> i, s |-> ""]
KeyArg(k) == [role |-> "key", tx |-> "", n |-> 0, s |-> k]
TypeArg(t) == [role |-> "type", tx |-> "", n |-> 0, s |-> t]

\* The arguments in the order MTX#signInput(index, key, type) declares.
SignInputArgsInOrder(tx, index, key, type) == <<index, key, type>>

\* Line 367: what jobs.signInput passes to tx.signInput.
SignInputArgs(tx, index, key, type) == <<tx, index, key, type>>

\* Lines 370-373: null when the result is falsy, [script, witness] of
\* tx.inputs[index] otherwise.
SignInputReturn(signed, index) ==
  IF ~signed THEN [null |-> TRUE, input |-> 0]
  ELSE [null |-> FALSE, input |-> index.n]

NoJob == [called |-> FALSE, on |-> "", args |-> <<>>, passed |-> <<>>,
          signed |-> FALSE, ret |-> [null |-> TRUE, input |-> 0]]

\* jobs.signInput(tx, index, key, type); signed is what tx.signInput
\* returns.
SignInput(tx, index, key, type, signed) ==
  /\ job' = [called |-> TRUE, on |-> tx.tx,
             args |-> <<tx, index, key, type>>,
             passed |-> SignInputArgs(tx, index, key, type),
             signed |-> signed,
             ret |-> SignInputReturn(signed, index)]
  /\ UNCHANGED <<loading, closing, loaded, locker, hooks, busy, jobs,
                 listeners, kind, pc, err, unlock, result, invoked, released,
                 got, snap, emitted, seen, heard, nObs, env>>

----------------------------------------------------------------------------
(* Specifications *)

\* The lifecycle of one component that overrides both hooks, with or
\* without a locker.
Init ==
  /\ LifeInit
  /\ locker \in BOOLEAN
  /\ hooks = {"open", "close"}
  /\ env = EnvNew(FALSE, FALSE, 0, 0)
  /\ job = NoJob

Next ==
  \/ \E e \in Events, t \in BOOLEAN : On(e, t)
  \/ \E c \in Calls : OpenCall(c)
  \/ \E c \in Calls : OpenLocked(c)
  \/ \E c \in Calls, ok \in BOOLEAN : HookSettles(c, ok)
  \/ \E c \in Calls : OpenFinish(c)
  \/ \E c \in Calls : CloseCall(c)
  \/ \E c \in Calls : CloseLocked(c)
  \/ \E c \in Calls : CloseFinish(c)
  \/ \E c \in Calls : WaitReturns(c)
  \/ \E c \in Calls : WaiterReturns(c)

Spec == Init /\ [][Next]_vars

\* The event loop runs every continuation that is ready, and the hooks
\* settle; nothing obliges a caller to make another call or to register an
\* observer.
Fairness ==
  /\ WF_vars(\E c \in Calls : OpenLocked(c))
  /\ WF_vars(\E c \in Calls, ok \in BOOLEAN : HookSettles(c, ok))
  /\ WF_vars(\E c \in Calls : OpenFinish(c))
  /\ WF_vars(\E c \in Calls : CloseLocked(c))
  /\ WF_vars(\E c \in Calls : CloseFinish(c))
  /\ WF_vars(\E c \in Calls : WaitReturns(c))
  /\ WF_vars(\E c \in Calls : WaiterReturns(c))

FairSpec == Init /\ [][Next]_vars /\ Fairness

\* The lifecycle of a component that leaves _open, _close or both as the
\* abstract stubs of AsyncObject.
AbstractInit ==
  /\ LifeInit
  /\ locker \in BOOLEAN
  /\ hooks \in {{}, {"open"}, {"close"}}
  /\ env = EnvNew(FALSE, FALSE, 0, 0)
  /\ job = NoJob

AbstractSpec == AbstractInit /\ [][Next]_vars

\* set() called any number of times on a new Environment.
EnvInit ==
  /\ LifeInit
  /\ locker = FALSE
  /\ hooks = {}
  /\ env \in {EnvNew(b, w, s, t) : b \in BOOLEAN, w \in BOOLEAN,
                                    s \in Nums, t \in Nums}
  /\ job = NoJob

EnvNext == \E o \in OptionArgs : Set(o)

EnvSpec == EnvInit /\ [][EnvNext]_vars

\* The signInput job called with any arguments.
JobInit ==
  /\ LifeInit
  /\ locker = FALSE
  /\ hooks = {}
  /\ env = EnvNew(FALSE, FALSE, 0, 0)
  /\ job = NoJob

JobNext ==
  \E x \in Txs, i \in Indexes, k \in Keys, t \in Types, signed \in BOOLEAN :
    SignInput(TxArg(x), IndexArg(i), KeyArg(k), TypeArg(t), signed)

JobSpec == JobInit /\ [][JobNext]_vars

----------------------------------------------------------------------------
(* Properties *)

\* What the flags encoded when call c was made.
CalledOnIdle(c) == ~snap[c].loading /\ ~snap[c].loaded /\ ~snap[c].closing
CalledOnOpen(c) == ~snap[c].loading /\ snap[c].loaded /\ ~snap[c].closing

\* Call c is being issued in this step as an open() / a close().
Issues(c, k) == kind[c] = "none" /\ kind'[c] = k

Settled(c) == result[c].st # "pending"

\* The calls of kind k made from the first call a until a settled.
Group(a, k) ==
  {a} \cup {b \in Calls : kind[b] = k /\ a \in snap[b].inflight}

\* The calls of a set that invoked their hook.
Invokers(S) == {c \in S : invoked[c]}

\* C1: open() calls issued before the first of them (made on an Idle
\* component with no call in flight) has settled invoke _open exactly once
\* between them: never more than once, and once by the time the first has
\* resolved.
C1_OpenHookOnce ==
  \A a \in Calls :
    (kind[a] = "open" /\ CalledOnIdle(a) /\ snap[a].inflight = {}) =>
      /\ Cardinality(Invokers(Group(a, "open"))) <= 1
      /\ result[a].st = "resolved" =>
           Cardinality(Invokers(Group(a, "open"))) = 1

\* C2: a caller that joined an open transition through _onOpen and whose
\* listener was called with the error of the failed hook is rejected with
\* that error, as is the caller that started the transition.
C2_WaitersRejected ==
  \A c \in Calls :
    (kind[c] = "open" /\ pc[c] = "done" /\ got[c] # 0) =>
      /\ result[c] = Rejected(got[c])
      /\ result[c] = result[got[c]]

\* The lock is taken and no call is left to release it: every later
\* lock() waits for ever.
LockLeaked ==
  busy /\ ~\E d \in Calls :
             \/ pc[d] = "locked"
             \/ pc[d] \in {"hook", "tick"} /\ unlock[d]

\* C3: when an open() whose hook failed settles, the component is Idle,
\* and an open() made afterwards can get to the hook again: it neither
\* returns early nor joins (the flags are Idle), and the lock it asks for
\* is one that will be released.
C3_FailedOpenIsIdle ==
  [][\A c \in Calls :
       (kind[c] = "open" /\ pc[c] = "tick" /\ err[c] # 0 /\ pc'[c] = "done")
         => /\ ~loading' /\ ~loaded' /\ ~closing'
            /\ ~LockLeaked']_vars

\* C4: when a close() whose teardown hook failed settles, the component
\* is Open again.
C4_FailedCloseIsOpen ==
  [][\A c \in Calls :
       (kind[c] = "close" /\ pc[c] = "tick" /\ err[c] # 0 /\ pc'[c] = "done")
         => (loaded' /\ ~closing' /\ ~loading')]_vars

\* C5: an open() made while a close() that was made on an Open component
\* has not settled is rejected at once with the usage error and changes
\* nothing else.
C5_OpenDuringClose ==
  [][\A c \in Calls :
       (Issues(c, "open") /\
        \E d \in InFlight : kind[d] = "close" /\ CalledOnOpen(d))
         => /\ result'[c] = Rejected(Usage)
            /\ pc'[c] = "done"
            /\ UNCHANGED <<loading, closing, loaded, busy, jobs, listeners,
                           invoked, emitted>>]_vars

\* C6: a close() made while an open() that was made on an Idle component
\* has not settled is rejected at once with the usage error and changes
\* nothing else.
C6_CloseDuringOpen ==
  [][\A c \in Calls :
       (Issues(c, "close") /\
        \E d \in InFlight : kind[d] = "open" /\ CalledOnIdle(d))
         => /\ result'[c] = Rejected(Usage)
            /\ pc'[c] = "done"
            /\ UNCHANGED <<loading, closing, loaded, busy, jobs, listeners,
                           invoked, emitted>>]_vars

\* C7: a close() made while a close transition is in flight has not
\* settled as long as the call running that transition has not, and then
\* has the same outcome.
C7_CloseJoinsClose ==
  \A c \in Calls :
    (kind[c] = "close" /\ snap[c].closing /\ Settled(c)) =>
      \A r \in snap[c].runner : Settled(r) /\ result[c] = result[r]

\* C8: close() calls issued before the first of them (made on an Open
\* component with no call in flight) has settled invoke _close exactly
\* once between them: never more than once, and once by the time the first
\* has resolved.
C8_CloseHookOnce ==
  \A a \in Calls :
    (kind[a] = "close" /\ CalledOnOpen(a) /\ snap[a].inflight = {}) =>
      /\ Cardinality(Invokers(Group(a, "close"))) <= 1
      /\ result[a].st = "resolved" =>
           Cardinality(Invokers(Group(a, "close"))) = 1

\* What a call that returns early leaves alone: the flags, the lock, the
\* listeners, the hooks and the notifications.
Untouched ==
  UNCHANGED <<loading, closing, loaded, busy, jobs, listeners, invoked,
              unlock, released, err, emitted, seen, heard>>

\* C9: close() on an Idle component only waits for the next turn, then
\* resolves; neither step touches the flags, the lock, the teardown hook
\* or the notifications.
C9_CloseOnIdle ==
  [][\A c \in Calls :
       /\ (Issues(c, "close") /\ Idle) =>
            (pc'[c] = "wait" /\ result'[c] = Pending /\ Untouched)
       /\ (kind[c] = "close" /\ CalledOnIdle(c) /\ pc[c] # pc'[c]) =>
            (pc[c] = "wait" /\ pc'[c] = "done" /\ ~invoked[c] /\
             result'[c] = Resolved(0) /\ Untouched)]_vars

\* A close() made on an Idle component has resolved.
C9_Witness ==
  \E c \in Calls :
    kind[c] = "close" /\ CalledOnIdle(c) /\ result[c] = Resolved(0)

\* C10: open() on an Open component only waits for the next turn, then
\* resolves; neither step touches the flags, the lock, the initialization
\* hook or the notifications.
C10_OpenOnOpen ==
  [][\A c \in Calls :
       /\ (Issues(c, "open") /\ Open) =>
            (pc'[c] = "wait" /\ result'[c] = Pending /\ Untouched)
       /\ (kind[c] = "open" /\ CalledOnOpen(c) /\ pc[c] # pc'[c]) =>
            (pc[c] = "wait" /\ pc'[c] = "done" /\ ~invoked[c] /\
             result'[c] = Resolved(0) /\ Untouched)]_vars

\* An open() made on an Open component has resolved.
C10_Witness ==
  \E c \in Calls :
    kind[c] = "open" /\ CalledOnOpen(c) /\ result[c] = Resolved(0)

\* C11: every open() and close() call that has been made eventually
\* settles, given that the hooks settle and that every continuation that
\* is ready is run.
C11_EveryCallSettles ==
  \A c \in Calls : [](kind[c] # "none" => <>Settled(c))

\* Call c ends its transition in this step, the hook having failed / having
\* succeeded.
Fails(c) == pc[c] = "tick" /\ pc'[c] = "done" /\ err[c] # 0
Succeeds(c) == pc[c] = "tick" /\ pc'[c] = "done" /\ err[c] = 0

\* Every observer of 'error' is called once more, with the error of c's hook.
ErrorDelivered(c) ==
  /\ \A n \in ObserversOf(listeners["error"]) :
       heard'[n] = Append(heard[n], err[c])
  /\ emitted'["error"] = emitted["error"] + 1

\* No observer of 'error' is called.
NoErrorDelivered ==
  /\ \A n \in ObserversOf(listeners["error"]) : heard'[n] = heard[n]
  /\ emitted'["error"] = emitted["error"]

\* C12: every failed transition calls every 'error' observer
\* exactly once with the error of the hook and rejects the caller with that
\* error; a successful transition delivers no 'error' notification.
C12_ErrorBroadcast ==
  [][\A c \in Calls :
       /\ Fails(c) => (ErrorDelivered(c) /\ result'[c] = Rejected(err[c]))
       /\ Succeeds(c) => NoErrorDelivered]_vars

\* C13: a call whose hook is the abstract stub does not go through the
\* failure path of a hook that rejects: the flags are not reverted, no
\* listener is removed or called, and nothing is emitted on 'error'.
C13_AbstractIsFatal ==
  [][\A c \in Calls :
       (pc[c] = "tick" /\ err[c] = Abstract /\ pc'[c] = "done") =>
         /\ UNCHANGED <<loading, closing, loaded>>
         /\ UNCHANGED <<listeners, heard, emitted>>]_vars

\* C14: set() changes maxWorkers, workerTimeout and sigcacheSize only when
\* the matching option is a number and useWorkers only when the option is
\* a boolean; with any other value (absent, NaN, a string) and with no
\* options at all the setting stays as it was.
C14_SetChangesOnlyGiven ==
  [][/\ env'.size # env.size => "maxWorkers" \in env'.given
     /\ env'.timeout # env.timeout => "workerTimeout" \in env'.given
     /\ env'.sigcacheSize # env.sigcacheSize => "sigcacheSize" \in env'.given
     /\ env'.useWorkers # env.useWorkers => "useWorkers" \in env'.given]_vars

\* set() has been called with a number for workerTimeout only: the
\* timeout has the new value and the other settings are not at it.
C14_Witness ==
  /\ env.applied
  /\ env.given = {"workerTimeout"}
  /\ env.timeout = MaxNum
  /\ env.size # MaxNum
  /\ env.sigcacheSize # MaxNum

\* C15: the signInput job calls tx.signInput with exactly (index, key,
\* type), on the transaction it was given; it returns null when that
\* reports no signature and the (script, witness) of input `index`
\* otherwise.
C15_SignInputArgs ==
  job.called =>
    /\ job.on = job.args[1].tx
    /\ job.passed = SignInputArgsInOrder(job.args[1], job.args[2], job.args[3],
                                         job.args[4])
    /\ job.ret.null = ~job.signed
    /\ ~job.ret.null => job.ret.input = job.args[2].n

\* C16: a call that took the lock has released it by the time it settles,
\* whichever way its transition ended, and the lock is free whenever no
\* call is in flight.
C16_LockReleased ==
  /\ \A c \in Calls : (Settled(c) /\ unlock[c]) => released[c]
  /\ InFlight = {} => ~busy

\* The calls of kind k whose hook has been invoked and has not settled.
Hooking(k) == {c \in Calls : kind[c] = k /\ pc[c] = "hook"}

\* Call c, of kind k, resolves in this step.
Completes(c, k) ==
  kind[c] = k /\ result[c] = Pending /\ result'[c].st = "resolved"

\* C17: loading and closing are never both true, the initialization hook
\* and the teardown hook never run at the same time, and no open()
\* resolves while the teardown hook is running, nor close() while the
\* initialization hook is.
C17_OpenCloseExclusive ==
  /\ [](~(loading /\ closing))
  /\ [](Hooking("open") = {} \/ Hooking("close") = {})
  /\ [][\A c \in Calls :
          /\ Completes(c, "open") => Hooking("close") = {}
          /\ Completes(c, "close") => Hooking("open") = {}]_vars

\* Call c starts the open transition in this step, on an Idle component.
StartsOpen(c) ==
  kind'[c] = "open" /\ Idle /\ pc[c] \in {"new", "locked"} /\ pc'[c] = "hook"

\* Call c, which ran the open transition, resolves in this step.
EndsOpen(c) ==
  kind[c] = "open" /\ pc[c] = "tick" /\ result'[c].st = "resolved"

\* The start of the transition by call c: the lock is held, the state
\* becomes Opening, 'preopen' is emitted once, its observers seeing state
\* st, and the hook is invoked.
OpenBegins(c, st) ==
  /\ locker => (busy /\ unlock'[c])
  /\ loading' /\ ~loaded' /\ ~closing'
  /\ emitted'["preopen"] = emitted["preopen"] + 1
  /\ seen'["preopen"] = st
  /\ emitted'["open"] = emitted["open"]
  /\ invoked'[c] /\ ~invoked[c]

\* While the hook runs nothing is emitted, and the state and the lock stay.
OpenHookRuns == UNCHANGED <<emitted, loading, loaded, released>>

\* The end of the transition by call c: the state becomes Open, 'open' is
\* emitted once, its observers seeing Open, the lock is released and the
\* caller resolved.
OpenEnds(c) ==
  /\ ~loading' /\ loaded' /\ ~closing'
  /\ emitted'["open"] = emitted["open"] + 1
  /\ seen'["open"] = "Open"
  /\ emitted'["preopen"] = emitted["preopen"]
  /\ released'[c] = locker

\* C18: a successful open() started from Idle goes through, in this order:
\* lock acquired, state Opening, 'preopen' notified (its observers see
\* Opening), hook invoked, state Open, 'open' notified (its observers see
\* Open), lock released, caller settled; 'preopen' and 'open' are emitted
\* once each.
C18_OpenOrder ==
  [][\A c \in Calls :
       /\ StartsOpen(c) => OpenBegins(c, "Opening")
       /\ (kind[c] = "open" /\ pc[c] = "hook") => OpenHookRuns
       /\ EndsOpen(c) => OpenEnds(c)]_vars

\* C18 with 'preopen' notified before the state changes: lock acquired,
\* 'preopen' notified (its observers still see Idle), state Opening, hook
\* invoked, state Open, 'open' notified (its observers see Open), lock
\* released, caller settled; 'preopen' and 'open' are emitted once each.
C18_OpenOrderPreopenFirst ==
  [][\A c \in Calls :
       /\ StartsOpen(c) => OpenBegins(c, "Idle")
       /\ (kind[c] = "open" /\ pc[c] = "hook") => OpenHookRuns
       /\ EndsOpen(c) => OpenEnds(c)]_vars

\* An open() made on an Idle component with a locker has resolved after
\* one 'preopen' and one 'open', a 'preopen' observer having been called.
C18_Witness ==
  \E c \in Calls, n \in Observers :
    /\ kind[c] = "open" /\ CalledOnIdle(c) /\ invoked[c]
    /\ result[c] = Resolved(0)
    /\ locker /\ released[c]
    /\ n \in ObserversOf(listeners["preopen"]) /\ heard[n] = <<0>>
    /\ emitted["preopen"] = 1 /\ emitted["open"] = 1
    /\ seen["preopen"] = "Idle" /\ seen["open"] = "Open"

\* C19: at most one of loading, loaded and closing is true.
C19_OneFlag ==
  /\ ~(loading /\ loaded)
  /\ ~(loading /\ closing)
  /\ ~(loaded /\ closing)

\* The observers registered for any event.
Registered == UNION {ObserversOf(listeners[f]) : f \in Events}

\* C20: a failed open() calls every listener of 'open', observers and
\* waiters alike, once with the error and removes them all, and leaves the
\* listeners of the other events as they were; an observer that is no
\* longer registered is never called again.  The same for close().
C20_FailureClearsObservers ==
  [][/\ \A c \in Calls :
          Fails(c) =>
            /\ listeners'[kind[c]] = <<>>
            /\ \A n \in ObserversOf(listeners[kind[c]]) :
                 heard'[n] = Append(heard[n], err[c])
            /\ \A w \in WaitersOf(listeners[kind[c]]) : got'[w] = err[c]
            /\ \A f \in Events \ {kind[c]} : listeners'[f] = listeners[f]
     /\ \A n \in Observers \ Registered : heard'[n] = heard[n]]_vars

====
